---- MODULE Spec2Model ----
(***************************************************************************)
(* Stock ledger, sales history and distributor catalogs of the bookstore   *)
(* inventory application (src/bookstore_app.py).                           *)
(*                                                                         *)
(* The persistent store is the four SQLite tables of DBManager; the model  *)
(* keeps the columns the ledger rules read or write.  Every handler (one   *)
(* button press of the Streamlit page) is one action: a bulk handler runs  *)
(* its whole row loop inside the action.                                   *)
(***************************************************************************)
EXTENDS Integers, Sequences, FiniteSets, TLC

VARIABLES
    books,          \* table books: isbn -> row (the DOMAIN is the set of stored ISBNs)
    sales,          \* table sales, in id order: <<[isbn, qty, sale_date], ...>>
    distributors,   \* table distributors: set of [id, name, return_window_months]
    catalog,        \* table distributor_catalog: set of [id, distributor_id, isbn]
    catalogSeq,     \* AUTOINCREMENT counter of distributor_catalog
    distSeq,        \* AUTOINCREMENT counter of distributors
    now,            \* the clock: datetime.date.today() / CURRENT_TIMESTAMP
    cart,           \* st.session_state.cart: isbn -> [distributor, qty] (title and author ride along)
    new_meta,       \* st.session_state.new_meta: the metadata last fetched on the Add New Book tab
    received,       \* history: per ISBN, the sum of the quantities of the receive calls made
    shortfall,      \* history: per ISBN, the sum over the sale calls of what each asked beyond the stock on hand
    requested,      \* history: per ISBN, the sum of the quantities added to the cart since it was last cleared
    lookup          \* history: the last "Fetch Metadata" run: its ISBN, the sources' answers, the requests sent, the result

vars == <<books, sales, distributors, catalog, catalogSeq, distSeq, now, cart, new_meta,
          received, shortfall, requested, lookup>>

history == <<received, shortfall, requested, lookup>>

----------------------------------------------------------------------------
(* Bounds of the model *)

MaxRows == 2        \* rows of one uploaded file
MaxSales == 2       \* rows the sales table may hold
MaxStock == 2       \* receiving stops once a book holds this much
MaxTime == 2        \* last clock value (the clock starts at 1)
MaxCatalogRows == 4 \* last id the catalog counter hands out
MaxDistributors == 2 \* last id the distributor counter hands out

----------------------------------------------------------------------------
(* Values *)

NULL == 0           \* SQL NULL in the integer columns distributor_id, purchase_date (ids and dates start at 1)
NoText == "NULL"    \* SQL NULL in a text column

Max(a, b) == IF a >= b THEN a ELSE b

\* str.strip() on the ISBN cells the model feeds in
strip(s) == CASE s = " " -> ""
              [] OTHER -> s

\* pd.to_numeric(errors='coerce').fillna(0).astype(int) on one qty cell
to_numeric(cell) == CASE cell = "-1" -> -1
                      [] cell = "0" -> 0
                      [] cell = "1" -> 1
                      [] cell = "2" -> 2
                      [] OTHER -> 0

\* dist_map = dict(zip(distributors['name'], distributors['id'])): a later row wins
dist_map(name) ==
    LET ids == {d.id : d \in {x \in distributors : x.name = name}}
    IN  CHOOSE i \in ids : \A j \in ids : j <= i

dist_names == {d.name : d \in distributors}

----------------------------------------------------------------------------
(* Metadata resolver *)

SourceResponses == {"error", "nomatch", "match"}

NoMeta == [found |-> FALSE, title |-> "", author |-> "", genre |-> ""]

\* no "Fetch Metadata" run yet
NoLookup == [isbn |-> "", google |-> "", openlib |-> "", requests |-> <<>>, result |-> NoMeta]

\* (mutant) Open Library is asked first
fetch_book_metadata_openlib_first(isbn, google, openlib) ==
    IF openlib = "match"
    THEN [found |-> TRUE, title |-> "OL-title", author |-> "OL-author", genre |-> "OL-genre"]
    ELSE IF google = "match"
         THEN [found |-> TRUE, title |-> "G-title", author |-> "G-author", genre |-> "G-genre"]
         ELSE NoMeta

\* fetch_book_metadata: Google Books first, Open Library second, else None
fetch_book_metadata(isbn, google, openlib) ==
    IF google = "match"
    THEN [found |-> TRUE, title |-> "G-title", author |-> "G-author", genre |-> "G-genre"]
    ELSE IF openlib = "match"
         THEN [found |-> TRUE, title |-> "OL-title", author |-> "OL-author", genre |-> "OL-genre"]
         ELSE NoMeta

\* f"Unknown Title ({isbn})" for the ISBNs of the model
UnknownTitle(isbn) == CASE isbn = "i1" -> "Unknown Title (i1)"
                        [] isbn = "i2" -> "Unknown Title (i2)"
                        [] isbn = "" -> "Unknown Title ()"
                        [] OTHER -> "Unknown Title (...)"

----------------------------------------------------------------------------
(* The store: DBManager.execute runs one statement and commits it, or      *)
(* catches the error and returns False.  `fail` names the statements of    *)
(* the running handler that raise: <<row number, statement>>.              *)

NoFail == {}

Executes(fail, k, stmt) == <<k, stmt>> \notin fail

\* DBManager.query catches nothing: a SELECT that raises leaves the row loop,
\* and the handler's outer except reports it
Raises(fail, k, stmt) == <<k, stmt>> \in fail

\* the columns of a books row
BookRow(title, author, genre, stock, shelf, pdate, dist, added) ==
    [title |-> title, author |-> author, genre |-> genre, stock |-> stock, shelf_location |-> shelf,
     purchase_date |-> pdate, distributor_id |-> dist, added_at |-> added]

\* a table with one row put in place (INSERT, or the row an upsert writes)
PutRow(b, isbn, row) == [k \in DOMAIN b \cup {isbn} |-> IF k = isbn THEN row ELSE b[k]]

\* DELETE FROM books WHERE isbn = ?
DeleteRow(b, isbn) == [k \in DOMAIN b \ {isbn} |-> b[k]]

\* the row the receiving and sales paths create for an unknown ISBN:
\* INSERT INTO books (isbn, title, stock, author, genre, summary, cover_url)
AutoCreatedRow(isbn, meta, t) ==
    IF meta.found
    THEN BookRow(meta.title, meta.author, meta.genre, 0, NoText, NULL, NULL, t)
    ELSE BookRow(UnknownTitle(isbn), "Unknown", "Unknown", 0, NoText, NULL, NULL, t)

\* (mutant) the decrement without the clamp
NewStockAfterSaleUnclamped(curr_stock, qty) == curr_stock - qty

\* new_stock = max(0, curr_stock - row['qty'])
NewStockAfterSale(curr_stock, qty) == Max(0, curr_stock - qty)

\* (mutant) SET stock = ? in place of SET stock = stock + ?
NewStockAfterReceiveOverwriting(stock, qty) == qty

\* UPDATE books SET stock = stock + ? WHERE isbn = ?
NewStockAfterReceive(stock, qty) == stock + qty

\* UPDATE books SET stock = ... WHERE isbn = ?  (no row matched: nothing changes)
SetStock(b, isbn, stock) ==
    IF isbn \in DOMAIN b THEN [b EXCEPT ![isbn].stock = stock] ELSE b

----------------------------------------------------------------------------
(* Sales import: the body of the row loop of render_sales_import *)

\* (mutant) the sale is recorded only for a book that was already stored
SalesRowRecordingKnownOnly(db, row, k, web, fail, t) ==
    LET row_isbn == strip(row.isbn)
        qty == to_numeric(row.qty)
        meta == fetch_book_metadata(row_isbn, web.google, web.openlib)
        b1 == IF row_isbn \notin DOMAIN db.books /\ Executes(fail, k, "insert_book")
              THEN PutRow(db.books, row_isbn, AutoCreatedRow(row_isbn, meta, t))
              ELSE db.books
        s1 == IF row_isbn \in DOMAIN db.books /\ Executes(fail, k, "insert_sale")
              THEN Append(db.sales, [isbn |-> row_isbn, qty |-> qty, sale_date |-> t])
              ELSE db.sales
        b2 == IF row_isbn \in DOMAIN b1 /\ Executes(fail, k, "update_stock")
              THEN SetStock(b1, row_isbn, NewStockAfterSale(b1[row_isbn].stock, qty))
              ELSE b1
    IN  [books |-> b2, sales |-> s1]

SalesRow(db, row, k, web, fail, t) ==
    LET row_isbn == strip(row.isbn)
        qty == to_numeric(row.qty)
        meta == fetch_book_metadata(row_isbn, web.google, web.openlib)
        b1 == IF row_isbn \notin DOMAIN db.books /\ Executes(fail, k, "insert_book")
              THEN PutRow(db.books, row_isbn, AutoCreatedRow(row_isbn, meta, t))
              ELSE db.books
        s1 == IF Executes(fail, k, "insert_sale")
              THEN Append(db.sales, [isbn |-> row_isbn, qty |-> qty, sale_date |-> t])
              ELSE db.sales
        b2 == IF row_isbn \in DOMAIN b1 /\ Executes(fail, k, "update_stock")
              THEN SetStock(b1, row_isbn, NewStockAfterSale(b1[row_isbn].stock, qty))
              ELSE b1
    IN  [books |-> b2, sales |-> s1]

RECURSIVE SalesRows(_, _, _, _, _, _)
SalesRows(db, rows, k, web, fail, t) ==
    IF k > Len(rows) THEN db
    ELSE IF Raises(fail, k, "select_book") THEN db
    ELSE IF Raises(fail, k, "select_stock")
         THEN SalesRow(db, rows[k], k, web, fail \cup {<<k, "update_stock">>}, t)
    ELSE SalesRows(SalesRow(db, rows[k], k, web, fail, t), rows, k + 1, web, fail, t)

----------------------------------------------------------------------------
(* Receiving: the quick scan and the row loop of the bulk upload *)

\* "Add Stock": the ISBN is used as typed
QuickScan(b, isbn, qty, web, fail, t) ==
    LET meta == fetch_book_metadata(isbn, web.google, web.openlib)
        b1 == IF isbn \notin DOMAIN b /\ Executes(fail, 1, "insert_book")
              THEN PutRow(b, isbn, AutoCreatedRow(isbn, meta, t))
              ELSE b
    IN  IF isbn \in DOMAIN b1 /\ Executes(fail, 1, "update_stock")
        THEN SetStock(b1, isbn, NewStockAfterReceive(b1[isbn].stock, qty))
        ELSE b1

ReceivingRow(b, row, k, web, fail, t) ==
    LET row_isbn == strip(row.isbn)
        qty == to_numeric(row.qty)
        meta == fetch_book_metadata(row_isbn, web.google, web.openlib)
        b1 == IF row_isbn \notin DOMAIN b /\ Executes(fail, k, "insert_book")
              THEN PutRow(b, row_isbn, AutoCreatedRow(row_isbn, meta, t))
              ELSE b
    IN  IF row_isbn = "" THEN b
        ELSE IF row_isbn \in DOMAIN b1 /\ Executes(fail, k, "update_stock")
             THEN SetStock(b1, row_isbn, NewStockAfterReceive(b1[row_isbn].stock, qty))
             ELSE b1

RECURSIVE ReceivingRows(_, _, _, _, _, _)
ReceivingRows(b, rows, k, web, fail, t) ==
    IF k > Len(rows) THEN b
    ELSE IF strip(rows[k].isbn) # "" /\ Raises(fail, k, "select_book") THEN b
    ELSE ReceivingRows(ReceivingRow(b, rows[k], k, web, fail, t), rows, k + 1, web, fail, t)

----------------------------------------------------------------------------
(* Inventory page: bulk import of books, the row loop of render_inventory *)

Get(row, col, default) == IF col \in DOMAIN row THEN row[col] ELSE default

\* dist_map.get(b_dist_name, None)
DistIdOf(name) == IF name \in dist_names THEN dist_map(name) ELSE NULL

\* the row the bulk import offers for insertion
BulkRecord(row, web, t) ==
    LET b_isbn == strip(row.isbn)
        meta == fetch_book_metadata(b_isbn, web.google, web.openlib)
        has_title == "title" \in DOMAIN row /\ row.title # ""
        has_author == "author" \in DOMAIN row /\ row.author # ""
        fetched == (~has_title \/ ~has_author) /\ meta.found
        b_title == IF has_title THEN row.title
                   ELSE IF fetched THEN meta.title ELSE UnknownTitle(b_isbn)
        b_author == IF has_author THEN row.author
                    ELSE IF fetched THEN meta.author ELSE "Unknown"
        row_genre == Get(row, "genre", "")
        meta_genre == IF row_genre = "" /\ fetched THEN meta.genre ELSE row_genre
        b_genre == IF meta_genre = "" THEN "Unknown" ELSE meta_genre
    IN  BookRow(b_title, b_author, b_genre, Get(row, "stock", 0), Get(row, "shelf", ""),
                t, DistIdOf(Get(row, "distributor", "")), t)

\* (mutant) OR REPLACE in place of OR IGNORE
InsertOrIgnoreReplacing(b, isbn, rec) == PutRow(b, isbn, rec)

\* INSERT OR IGNORE INTO books: a stored ISBN keeps its row
InsertOrIgnore(b, isbn, rec) == IF isbn \in DOMAIN b THEN b ELSE PutRow(b, isbn, rec)

\* INSERT OR REPLACE INTO books: the stored row, if any, is dropped and a new one written
InsertOrReplace(b, isbn, rec) == PutRow(b, isbn, rec)

BulkRow(b, row, k, web, fail, t) ==
    LET b_isbn == strip(row.isbn)
    IN  IF b_isbn = "" THEN b
        ELSE IF Executes(fail, k, "insert_book")
             THEN InsertOrIgnore(b, b_isbn, BulkRecord(row, web, t))
             ELSE b

RECURSIVE BulkRows(_, _, _, _, _, _)
BulkRows(b, rows, k, web, fail, t) ==
    IF k > Len(rows) THEN b
    ELSE BulkRows(BulkRow(b, rows[k], k, web, fail, t), rows, k + 1, web, fail, t)

----------------------------------------------------------------------------
(* Distributors page: the distributor list and the stock-list upload *)

\* isbn = row.get('isbn', row.get('id', ''))
RowIsbn(row) == Get(row, "isbn", Get(row, "id", ""))

\* data_batch: one entry per row with an ISBN, in file order
RECURSIVE data_batch(_, _)
data_batch(rows, k) ==
    IF k > Len(rows) THEN <<>>
    ELSE (IF RowIsbn(rows[k]) # "" THEN <<RowIsbn(rows[k])>> ELSE <<>>) \o data_batch(rows, k + 1)

CatalogOf(cat, dist_id) == {c \in cat : c.distributor_id = dist_id}

\* (mutant) the upload merges into the old catalog: no delete
DeleteCatalogKeeping(cat, dist_id) == cat

\* DELETE FROM distributor_catalog WHERE distributor_id = ?
DeleteCatalog(cat, dist_id) == cat \ CatalogOf(cat, dist_id)

\* executemany(INSERT INTO distributor_catalog ...): the rows get the next ids
InsertCatalog(cat, seq, dist_id, batch) ==
    cat \cup {[id |-> seq + k, distributor_id |-> dist_id, isbn |-> batch[k]] : k \in 1..Len(batch)}

----------------------------------------------------------------------------
(* Inputs *)

Isbns == {"i1", "i2"}
QtyCells == {"-1", "1", "x"}       \* "x": not a number
Shelves == {"S1"}
AdjustStocks == {-1, 0, 2}              \* number_input("Stock", value=...) has no minimum
NewBookStocks == {0, 2}                 \* number_input("Stock", 0): minimum 0
ScanQtys == {1, 2}                      \* number_input("Qty Received", 1): minimum 1
Titles == {"", "T1"}

\* the answers of the two sources during one handler run
Web(g, o) == [google |-> g, openlib |-> o]
LedgerWebs == {Web("nomatch", "match"), Web("error", "nomatch")}

\* rows of a sales or receiving file
QtyRows ==
    { [isbn |-> "i1", qty |-> "1"], [isbn |-> "i1", qty |-> "-1"],
      [isbn |-> "i2", qty |-> "1"], [isbn |-> "i2", qty |-> "x"] }

BulkImportRows ==
    { [isbn |-> "i1", stock |-> -1],
      [isbn |-> "i2", title |-> "T1", author |-> "A1", stock |-> 2, shelf |-> "S1", distributor |-> "D1"],
      [isbn |-> " ", title |-> "T1"] }

\* the files of one to MaxRows rows
Files(Rows) == UNION {[1..n -> Rows] : n \in 1..MaxRows}

DistNames == {"D1", "D2"}

DefaultWindow == 6                      \* number_input("Return Window (Months)", value=6)

\* rows of a stock list: with an ISBN, with the ISBN in an "id" column, with a blank ISBN, with none
UploadRows == { [isbn |-> "c1"], [isbn |-> "c2"], [id |-> "c3"], [isbn |-> ""], [title |-> "untitled"] }

MaxDebt == 1        \* handlers that would take a stock below -MaxDebt are not run

StockInRange(b) == \A k \in DOMAIN b : b[k].stock >= -MaxDebt /\ b[k].stock <= MaxStock

----------------------------------------------------------------------------
(* Handlers *)

ledgerRest == <<distributors, catalog, catalogSeq, distSeq, cart, new_meta>>

\* Inventory, "Update": UPDATE books SET stock = ?, shelf_location = ? WHERE isbn = ?
UpdateOn(isbn, n_stock, n_shelf, fail) ==
    /\ isbn \in DOMAIN books
    /\ books' = IF Executes(fail, 1, "update_book")
                THEN [books EXCEPT ![isbn].stock = n_stock, ![isbn].shelf_location = n_shelf]
                ELSE books
    /\ UNCHANGED <<sales, now, ledgerRest>>

\* (mutant) the delete cascades to the book's sales
DeleteBookCascading(isbn, fail) ==
    /\ isbn \in DOMAIN books
    /\ books' = DeleteRow(books, isbn)
    /\ sales' = SelectSeq(sales, LAMBDA e : e.isbn # isbn)
    /\ UNCHANGED <<now, ledgerRest>>

\* Inventory, "Delete Book": DELETE FROM books WHERE isbn = ?
DeleteBookOn(isbn, fail) ==
    /\ isbn \in DOMAIN books
    /\ books' = IF Executes(fail, 1, "delete_book") THEN DeleteRow(books, isbn) ELSE books
    /\ UNCHANGED <<sales, now, ledgerRest>>

\* Inventory, "Save Book": INSERT OR REPLACE, only with a title, a distributor and an ISBN
SaveBookOn(isbn_in, title, author, stock, shelf, dist, fail) ==
    /\ dist \in dist_names
    /\ books' = IF title # "" /\ isbn_in # "" /\ Executes(fail, 1, "insert_book")
                THEN InsertOrReplace(books, isbn_in,
                         BookRow(title, author, new_meta.genre, stock, shelf, now,
                                 dist_map(dist), now))
                ELSE books
    /\ UNCHANGED <<sales, now, ledgerRest>>

\* Inventory, "Process Bulk Import"
BulkImportOn(rows, web, fail) ==
    /\ books' = BulkRows(books, rows, 1, web, fail, now)
    /\ StockInRange(books')
    /\ UNCHANGED <<sales, now, ledgerRest>>

\* Import Sales, "Process Sales"
ProcessSalesOn(rows, web, fail) ==
    LET db == SalesRows([books |-> books, sales |-> sales], rows, 1, web, fail, now)
    IN  /\ Len(sales) + Len(rows) <= MaxSales
        /\ books' = db.books
        /\ sales' = db.sales
        /\ StockInRange(books')
        /\ UNCHANGED <<now, ledgerRest>>

\* Receiving, "Add Stock"
AddStockOn(isbn, qty, web, fail) ==
    /\ isbn # ""
    /\ books' = QuickScan(books, isbn, qty, web, fail, now)
    /\ StockInRange(books')
    /\ UNCHANGED <<sales, now, ledgerRest>>

\* Receiving, "Process Receiving"
ProcessReceivingOn(rows, web, fail) ==
    /\ books' = ReceivingRows(books, rows, 1, web, fail, now)
    /\ StockInRange(books')
    /\ UNCHANGED <<sales, now, ledgerRest>>

\* Distributors, "Save Distributor": INSERT INTO distributors
SaveDistributorOn(name, window, fail) ==
    /\ distSeq < MaxDistributors
    /\ distributors' = IF Executes(fail, 1, "insert_distributor")
                       THEN distributors \cup {[id |-> distSeq + 1, name |-> name,
                                                return_window_months |-> window]}
                       ELSE distributors
    /\ distSeq' = IF Executes(fail, 1, "insert_distributor") THEN distSeq + 1 ELSE distSeq
    /\ UNCHANGED <<books, sales, now, catalog, catalogSeq, cart, new_meta>>

\* "Save Distributor" with the return window the form proposes
AddDistributorOn(name, fail) == SaveDistributorOn(name, DefaultWindow, fail)

\* Distributors, "Delete Distributor": DELETE FROM distributors WHERE id = ?
DeleteDistributorOn(id, fail) ==
    /\ \E d \in distributors : d.id = id
    /\ distributors' = IF Executes(fail, 1, "delete_distributor")
                       THEN {d \in distributors : d.id # id}
                       ELSE distributors
    /\ UNCHANGED <<books, sales, now, catalog, catalogSeq, distSeq, cart, new_meta>>

\* Distributors, "Process Upload": the old stock list is deleted, then the file's rows inserted
ProcessUploadOn(sel_dist, rows, fail) ==
    /\ sel_dist \in dist_names
    /\ LET dist_id == dist_map(sel_dist)
           batch == data_batch(rows, 1)
           cleared == IF Executes(fail, 1, "delete_catalog")
                      THEN DeleteCatalog(catalog, dist_id)
                      ELSE catalog
           inserts == batch # <<>> /\ Executes(fail, 1, "insert_catalog")
       IN  /\ catalogSeq + Len(batch) <= MaxCatalogRows
           /\ catalog' = IF inserts THEN InsertCatalog(cleared, catalogSeq, dist_id, batch) ELSE cleared
           /\ catalogSeq' = IF inserts THEN catalogSeq + Len(batch) ELSE catalogSeq
    /\ UNCHANGED <<books, sales, now, distributors, distSeq, cart, new_meta>>

----------------------------------------------------------------------------
(* The ledger on a store that executes every statement *)

Init ==
    /\ books = <<>>
    /\ sales = <<>>
    /\ distributors = {}
    /\ distSeq = 0
    /\ catalog = {}
    /\ catalogSeq = 0
    /\ now = 1
    /\ received = [i \in Isbns |-> 0]
    /\ shortfall = [i \in Isbns |-> 0]
    /\ cart = <<>>
    /\ requested = [i \in Isbns |-> 0]
    /\ new_meta = NoMeta
    /\ lookup = NoLookup

Update ==
    \E isbn \in DOMAIN books, n_stock \in AdjustStocks, n_shelf \in Shelves :
        UpdateOn(isbn, n_stock, n_shelf, NoFail) /\ UNCHANGED history

DeleteBook ==
    \E isbn \in DOMAIN books : DeleteBookOn(isbn, NoFail) /\ UNCHANGED history

SaveBook ==
    \E isbn_in \in Isbns \cup {""}, title \in Titles, stock \in NewBookStocks, dist \in dist_names :
        SaveBookOn(isbn_in, title, "A1", stock, "S1", dist, NoFail) /\ UNCHANGED history

BulkImport ==
    \E rows \in Files(BulkImportRows), web \in LedgerWebs :
        BulkImportOn(rows, web, NoFail) /\ UNCHANGED history

ProcessSales ==
    \E rows \in Files(QtyRows), web \in LedgerWebs :
        ProcessSalesOn(rows, web, NoFail) /\ UNCHANGED history

AddStock ==
    \E isbn \in Isbns, qty \in ScanQtys, web \in LedgerWebs :
        AddStockOn(isbn, qty, web, NoFail) /\ UNCHANGED history

ProcessReceiving ==
    \E rows \in Files(QtyRows), web \in LedgerWebs :
        ProcessReceivingOn(rows, web, NoFail) /\ UNCHANGED history

\* the shop's first distributor is entered: Save Book needs one
FirstDistributor ==
    /\ distSeq = 0
    /\ AddDistributorOn("D1", NoFail)
    /\ UNCHANGED history

\* time passes between handlers
Tick ==
    /\ now < MaxTime
    /\ now' = now + 1
    /\ UNCHANGED <<books, sales, ledgerRest, history>>

Next ==
    \/ FirstDistributor
    \/ Update
    \/ DeleteBook
    \/ SaveBook
    \/ BulkImport
    \/ ProcessSales
    \/ AddStock
    \/ ProcessReceiving

Spec == Init /\ [][Next]_vars

----------------------------------------------------------------------------
(* The receive and recordSale calls alone, each with a positive quantity,   *)
(* on an empty store: the history variables add up what the calls asked.    *)

CallQtyCells == {"1", "2"}

ScanCall ==
    \E isbn \in Isbns, qty \in ScanQtys, web \in LedgerWebs :
        /\ AddStockOn(isbn, qty, web, NoFail)
        /\ received' = [received EXCEPT ![isbn] = @ + qty]
        /\ UNCHANGED <<shortfall, requested, lookup>>

BulkReceiveCall ==
    \E isbn \in Isbns, cell \in CallQtyCells, web \in LedgerWebs :
        /\ ProcessReceivingOn(<<[isbn |-> isbn, qty |-> cell]>>, web, NoFail)
        /\ received' = [received EXCEPT ![isbn] = @ + to_numeric(cell)]
        /\ UNCHANGED <<shortfall, requested, lookup>>

SaleCall ==
    \E isbn \in Isbns, cell \in CallQtyCells, web \in LedgerWebs :
        /\ ProcessSalesOn(<<[isbn |-> isbn, qty |-> cell]>>, web, NoFail)
        /\ shortfall' = [shortfall EXCEPT
                            ![isbn] = @ + Max(0, to_numeric(cell) -
                                                 (IF isbn \in DOMAIN books THEN books[isbn].stock ELSE 0))]
        /\ UNCHANGED <<received, requested, lookup>>

NextCalls ==
    \/ ScanCall
    \/ BulkReceiveCall
    \/ SaleCall

SpecCalls == Init /\ [][NextCalls]_vars

----------------------------------------------------------------------------
(* The sales import and the receiving on a store whose statements may       *)
(* raise: at most one statement of a handler run fails.                     *)

SalesStatements == {"insert_book", "insert_sale", "update_stock"}

OneFailure(stmts) == {NoFail} \cup {{<<k, stmt>>} : k \in 1..MaxRows, stmt \in stmts}

FaultySales ==
    \E rows \in Files(QtyRows), web \in LedgerWebs, fail \in OneFailure(SalesStatements) :
        ProcessSalesOn(rows, web, fail) /\ UNCHANGED history

FaultyAddStock ==
    \E isbn \in Isbns, qty \in ScanQtys, web \in LedgerWebs,
       fail \in OneFailure({"insert_book", "update_stock"}) :
        AddStockOn(isbn, qty, web, fail) /\ UNCHANGED history

NextFault ==
    \/ FaultySales
    \/ FaultyAddStock

SpecFault == Init /\ [][NextFault]_vars

----------------------------------------------------------------------------
(* One book followed over time: every handler that works on a stored book,  *)
(* and the clock.                                                           *)

TheBook == "i1"

ClockSaveBook ==
    \E stock \in NewBookStocks, dist \in dist_names :
        SaveBookOn(TheBook, "T1", "A1", stock, "S1", dist, NoFail) /\ UNCHANGED history

ClockUpdate ==
    \E n_stock \in AdjustStocks, n_shelf \in Shelves :
        UpdateOn(TheBook, n_stock, n_shelf, NoFail) /\ UNCHANGED history

ClockBulkImport ==
    \E row \in {r \in BulkImportRows : strip(r.isbn) = TheBook}, web \in LedgerWebs :
        BulkImportOn(<<row>>, web, NoFail) /\ UNCHANGED history

ClockSale ==
    \E cell \in QtyCells, web \in LedgerWebs :
        ProcessSalesOn(<<[isbn |-> TheBook, qty |-> cell]>>, web, NoFail) /\ UNCHANGED history

ClockAddStock ==
    \E qty \in ScanQtys, web \in LedgerWebs :
        AddStockOn(TheBook, qty, web, NoFail) /\ UNCHANGED history

ClockReceiving ==
    \E cell \in QtyCells, web \in LedgerWebs :
        ProcessReceivingOn(<<[isbn |-> TheBook, qty |-> cell]>>, web, NoFail) /\ UNCHANGED history

NextClock ==
    \/ FirstDistributor
    \/ ClockSaveBook
    \/ ClockUpdate
    \/ ClockBulkImport
    \/ ClockSale
    \/ ClockAddStock
    \/ ClockReceiving
    \/ Tick

SpecClock == Init /\ [][NextClock]_vars

----------------------------------------------------------------------------
(* The distributors and their catalogs *)

AddDistributor ==
    \E name \in DistNames : AddDistributorOn(name, NoFail) /\ UNCHANGED history

DeleteDistributor ==
    \E d \in distributors : DeleteDistributorOn(d.id, NoFail) /\ UNCHANGED history

ProcessUpload ==
    \E sel_dist \in dist_names, rows \in Files(UploadRows) :
        ProcessUploadOn(sel_dist, rows, NoFail) /\ UNCHANGED history

NextCatalog ==
    \/ AddDistributor
    \/ DeleteDistributor
    \/ ProcessUpload

SpecCatalog == Init /\ [][NextCatalog]_vars

----------------------------------------------------------------------------
(* C1: in every reachable state of the ledger, after any sequence of its     *)
(* handlers, the stock of every stored book is at least 0.                  *)
StockNeverNegative == \A isbn \in DOMAIN books : books[isbn].stock >= 0

----------------------------------------------------------------------------
(* Helpers of the claims *)

\* the stock a handler finds for an ISBN: an unknown book is created with stock 0
StockOrZero(b, isbn) == IF isbn \in DOMAIN b THEN b[isbn].stock ELSE 0

IsPrefix(s, t) == Len(s) <= Len(t) /\ SubSeq(t, 1, Len(s)) = s

\* the rows of a sales or receiving file whose quantity is a positive integer
PositiveQtyRows == {row \in QtyRows : to_numeric(row.qty) > 0}

(* C2: after any sequence of receive and recordSale calls from an empty     *)
(* store, the stock of each ISBN is max(0, sum received - sum sold),        *)
(* whatever the order of the calls.                                         *)
RECURSIVE SoldUpTo(_, _)
SoldUpTo(isbn, n) ==
    IF n = 0 THEN 0
    ELSE SoldUpTo(isbn, n - 1) + (IF sales[n].isbn = isbn THEN sales[n].qty ELSE 0)

Sold(isbn) == SoldUpTo(isbn, Len(sales))

StockIsClampedTotal ==
    \A isbn \in Isbns :
        StockOrZero(books, isbn) = Max(0, received[isbn] - Sold(isbn))

(* C2, amended: each sale clamps on its own, so the stock is the sum        *)
(* received, less the sum sold, plus what the sales asked beyond the stock  *)
(* on hand; it is never below max(0, sum received - sum sold) and equals it *)
(* when no sale asked for more than was on hand.                            *)
StockIsClampedRunningSum ==
    \A isbn \in Isbns :
        LET stock == StockOrZero(books, isbn)
            net == received[isbn] - Sold(isbn)
        IN  /\ stock = net + shortfall[isbn]
            /\ stock >= Max(0, net)
            /\ shortfall[isbn] = 0 => stock = Max(0, net)

\* a sale was clamped and a later receive put the stock above the clamped total
ReceiveAfterClampedSale ==
    \E isbn \in DOMAIN books :
        /\ shortfall[isbn] > 0
        /\ received[isbn] > 0
        /\ books[isbn].stock > Max(0, received[isbn] - Sold(isbn))

(* C3: every processed row of a sales import appends exactly one SaleEvent, *)
(* with the row's ISBN and quantity, whether or not the book was known and  *)
(* whether or not the stock is clamped.                                     *)
SaleAppendsOneEvent ==
    [][\A row \in QtyRows, web \in LedgerWebs :
          ProcessSalesOn(<<row>>, web, NoFail) =>
              sales' = Append(sales, [isbn |-> strip(row.isbn), qty |-> to_numeric(row.qty),
                                      sale_date |-> now])]_vars

\* a sale of more than the stock on hand, of a book the sale itself created, is on record
SaleOfUnknownBookRecorded ==
    \E k \in 1..Len(sales) :
        /\ sales[k].qty > 0
        /\ sales[k].isbn \in DOMAIN books
        /\ books[sales[k].isbn].stock = 0
        /\ books[sales[k].isbn].purchase_date = NULL
        /\ books[sales[k].isbn].shelf_location = NoText

(* C4: a sale of a positive quantity leaves the book with                   *)
(* max(0, previous stock - qty); an unknown ISBN is created first, so its   *)
(* stock after the sale is 0.                                               *)
SaleDecrementsClamped ==
    [][\A row \in PositiveQtyRows, web \in LedgerWebs :
          ProcessSalesOn(<<row>>, web, NoFail) =>
              LET isbn == strip(row.isbn)
                  qty == to_numeric(row.qty)
              IN  /\ isbn \in DOMAIN books'
                  /\ books'[isbn].stock = Max(0, StockOrZero(books, isbn) - qty)
                  /\ isbn \notin DOMAIN books => books'[isbn].stock = 0]_vars

\* a sale has emptied a book that was received before
SoldOutAfterSale ==
    \E k \in 1..Len(sales) :
        /\ sales[k].qty > 0
        /\ sales[k].isbn \in DOMAIN books
        /\ books[sales[k].isbn].stock = 0
        /\ books[sales[k].isbn].purchase_date # NULL

(* C5: a receive of a positive quantity adds it to the stock, on the quick  *)
(* scan and on the bulk upload; an unknown ISBN is created first, so its    *)
(* stock after the receive is the quantity.                                 *)
ReceiveAddsQty ==
    [][/\ \A isbn \in Isbns, qty \in ScanQtys, web \in LedgerWebs :
             AddStockOn(isbn, qty, web, NoFail) =>
                 /\ isbn \in DOMAIN books'
                 /\ books'[isbn].stock = StockOrZero(books, isbn) + qty
                 /\ isbn \notin DOMAIN books => books'[isbn].stock = qty
       /\ \A row \in PositiveQtyRows, web \in LedgerWebs :
             ProcessReceivingOn(<<row>>, web, NoFail) =>
                 LET isbn == strip(row.isbn)
                     qty == to_numeric(row.qty)
                 IN  /\ isbn \in DOMAIN books'
                     /\ books'[isbn].stock = StockOrZero(books, isbn) + qty
                     /\ isbn \notin DOMAIN books => books'[isbn].stock = qty]_vars

\* a book created by a receive holds stock, and no sale has been recorded
ReceivedIntoNewBook ==
    /\ sales = <<>>
    /\ \E isbn \in DOMAIN books :
          /\ books[isbn].stock = MaxStock
          /\ books[isbn].purchase_date = NULL
          /\ books[isbn].shelf_location = NoText

(* C6: a SaleEvent and its stock decrement go together, also when a         *)
(* statement raises: a step that appends SaleEvents for an ISBN leaves its  *)
(* stock decremented by them (each clamped at 0), and a step that appends   *)
(* none for an ISBN does not lower its stock.                               *)
RECURSIVE StockAfterSales(_, _, _, _)
StockAfterSales(stock, events, isbn, k) ==
    IF k > Len(events) THEN stock
    ELSE StockAfterSales(IF events[k].isbn = isbn THEN Max(0, stock - events[k].qty) ELSE stock,
                         events, isbn, k + 1)

SaleAndDecrementPaired ==
    [][LET appended == SubSeq(sales', Len(sales) + 1, Len(sales'))
       IN  \A isbn \in Isbns :
               IF \E k \in 1..Len(appended) : appended[k].isbn = isbn
               THEN /\ isbn \in DOMAIN books'
                    /\ books'[isbn].stock = StockAfterSales(StockOrZero(books, isbn), appended, isbn, 1)
               ELSE StockOrZero(books', isbn) >= StockOrZero(books, isbn)]_vars

(* C7: the sales table only grows at its end: every handler leaves the rows *)
(* already written in place and unchanged, and deleting a book removes the  *)
(* books row alone.                                                         *)
SalesAppendOnly ==
    [][/\ IsPrefix(sales, sales')
       /\ \A isbn \in Isbns :
             DeleteBookOn(isbn, NoFail) =>
                 sales' = sales /\ DOMAIN books' = DOMAIN books \ {isbn}]_vars

\* a SaleEvent whose book has been deleted
SaleOfDeletedBook == \E k \in 1..Len(sales) : sales[k].isbn \notin DOMAIN books

(* C10: no handler changes the creation timestamp of a book that is stored  *)
(* before and after it.                                                     *)
CreationTimestampImmutable ==
    [][\A isbn \in DOMAIN books \cap DOMAIN books' :
           books'[isbn].added_at = books[isbn].added_at]_vars

(* C8: an upload for a distributor leaves, as that distributor's catalog,   *)
(* exactly the ISBNs of the uploaded file, one entry per row with an ISBN   *)
(* and none of the entries stored before; the entries of every other        *)
(* distributor stay as they were.                                           *)
UploadedIsbns(rows) == {RowIsbn(rows[k]) : k \in 1..Len(rows)} \ {""}

CatalogReplacedPerDistributor ==
    [][\A sel_dist \in DistNames, rows \in Files(UploadRows) :
          ProcessUploadOn(sel_dist, rows, NoFail) =>
              LET dist_id == dist_map(sel_dist)
              IN  /\ {c.isbn : c \in CatalogOf(catalog', dist_id)} = UploadedIsbns(rows)
                  /\ Cardinality(CatalogOf(catalog', dist_id)) =
                         Cardinality({k \in 1..Len(rows) : RowIsbn(rows[k]) # ""})
                  /\ CatalogOf(catalog', dist_id) \cap catalog = {}
                  /\ catalog' \ CatalogOf(catalog', dist_id) = catalog \ CatalogOf(catalog, dist_id)]_vars

\* a distributor's catalog has been uploaded over an earlier one, beside another distributor's
CatalogReplacedBesideAnother ==
    \E c \in catalog, other \in catalog :
        /\ c.distributor_id # other.distributor_id
        /\ Cardinality(CatalogOf(catalog, c.distributor_id)) = 1
        /\ Cardinality(CatalogOf(catalog, other.distributor_id)) = 1
        /\ c.id > other.id + 1

(* C9: a bulk import leaves every stored book as it was: in every reachable  *)
(* state, whatever file is imported, a row whose ISBN is already stored     *)
(* changes no column of that book.                                          *)
BulkImportKeepsStoredBooks ==
    \A rows \in Files(BulkImportRows), web \in LedgerWebs :
        LET after == BulkRows(books, rows, 1, web, NoFail, now)
        IN  \A isbn \in DOMAIN books : isbn \in DOMAIN after /\ after[isbn] = books[isbn]

\* a stored book that differs in every curated column from what a bulk row offers for it
CuratedBookStored ==
    /\ "i2" \in DOMAIN books
    /\ books["i2"].title # "T1"
    /\ books["i2"].stock = 0
    /\ books["i2"].shelf_location = NoText
    /\ books["i2"].distributor_id = NULL
    /\ books["i2"].purchase_date = NULL

----------------------------------------------------------------------------
(* C11: a sales or receiving row whose quantity is not a positive integer   *)
(* (zero, negative, not a number) is rejected: the run appends no           *)
(* SaleEvent, creates no book and changes no stock.                         *)
NonPositiveQtyRows == {row \in QtyRows : to_numeric(row.qty) <= 0}

NonPositiveQtyRejected ==
    [][\A row \in NonPositiveQtyRows, web \in LedgerWebs :
          (ProcessSalesOn(<<row>>, web, NoFail) \/ ProcessReceivingOn(<<row>>, web, NoFail))
              => UNCHANGED <<books, sales>>]_vars

----------------------------------------------------------------------------
(* The ledger handlers on ISBN cells that are blank or hold only a hyphen,  *)
(* beside a proper ISBN.                                                    *)

\* clean_isbn = str(isbn).strip().replace("-", "") on the ISBN cells of the model
clean_isbn(isbn) == CASE isbn \in {"", " ", "-"} -> ""
                      [] isbn = "978-0-00-000000-1" -> "9780000000001"
                      [] isbn = " 1-2 " -> "12"
                      [] OTHER -> isbn

BlankIsbnCells == {" ", "-", "i1"}

BlankSale ==
    \E cell \in BlankIsbnCells, web \in LedgerWebs :
        ProcessSalesOn(<<[isbn |-> cell, qty |-> "1"]>>, web, NoFail) /\ UNCHANGED history

BlankScan ==
    \E isbn \in BlankIsbnCells, web \in LedgerWebs :
        AddStockOn(isbn, 1, web, NoFail) /\ UNCHANGED history

BlankReceiving ==
    \E cell \in BlankIsbnCells, web \in LedgerWebs :
        ProcessReceivingOn(<<[isbn |-> cell, qty |-> "1"]>>, web, NoFail) /\ UNCHANGED history

BlankBulkImport ==
    \E cell \in BlankIsbnCells, web \in LedgerWebs :
        BulkImportOn(<<[isbn |-> cell, stock |-> 1]>>, web, NoFail) /\ UNCHANGED history

NextBlank ==
    \/ BlankSale
    \/ BlankScan
    \/ BlankReceiving
    \/ BlankBulkImport

SpecBlank == Init /\ [][NextBlank]_vars

(* C12: a sales import, quick scan, bulk receiving or bulk import given an  *)
(* ISBN that is empty once whitespace and hyphens are stripped is a no-op:  *)
(* it creates no book, appends no SaleEvent and changes no stock.           *)
EmptyIsbnIsNoOp ==
    [][\A cell \in {c \in BlankIsbnCells : clean_isbn(c) = ""}, web \in LedgerWebs :
          (\/ ProcessSalesOn(<<[isbn |-> cell, qty |-> "1"]>>, web, NoFail)
           \/ AddStockOn(cell, 1, web, NoFail)
           \/ ProcessReceivingOn(<<[isbn |-> cell, qty |-> "1"]>>, web, NoFail)
           \/ BulkImportOn(<<[isbn |-> cell, stock |-> 1]>>, web, NoFail))
              => UNCHANGED <<books, sales>>]_vars

----------------------------------------------------------------------------
(* The order cart: lines are added from the distributor catalogs and from   *)
(* the inventory, and the cart is cleared on the Order Cart page.           *)

MaxCartQty == 3     \* a cart line is not taken beyond this quantity

CartQtys == {1, 2}                      \* number_input("Qty", min_value=1)

\* SELECT dc.*, d.name as dist_name FROM distributor_catalog dc JOIN distributors d
CatalogResults ==
    {[id |-> c.id, isbn |-> c.isbn, dist_name |-> d.name] :
        <<c, d>> \in {cd \in catalog \X distributors : cd[1].distributor_id = cd[2].id}}

\* FROM books b LEFT JOIN distributors d ON b.distributor_id = d.id: d.name, or NULL
distributor_name(isbn) ==
    LET ds == {d \in distributors : d.id = books[isbn].distributor_id}
    IN  IF ds = {} THEN NoText ELSE (CHOOSE d \in ds : TRUE).name

\* st.session_state.cart.get(isbn, {}).get('qty', 0)
CartQtyOf(c, isbn) == IF isbn \in DOMAIN c THEN c[isbn].qty ELSE 0

\* (mutant) the line is overwritten with the quantity asked
MergedQtyOverwriting(curr, qty_add) == qty_add

\* 'qty': curr + qty_add
MergedQty(curr, qty_add) == curr + qty_add

\* Distributors, "Browse & Order", "Add"
CatalogAddOn(row, qty_add) ==
    /\ row \in CatalogResults
    /\ MergedQty(CartQtyOf(cart, row.isbn), qty_add) <= MaxCartQty
    /\ cart' = PutRow(cart, row.isbn,
                      [distributor |-> row.dist_name,
                       qty |-> MergedQty(CartQtyOf(cart, row.isbn), qty_add)])
    /\ UNCHANGED <<books, sales, now, distributors, catalog, catalogSeq, distSeq, new_meta>>

\* Inventory, "Add to Order Cart": one more copy of the book
InventoryAddOn(isbn) ==
    /\ isbn \in DOMAIN books
    /\ MergedQty(CartQtyOf(cart, isbn), 1) <= MaxCartQty
    /\ cart' = PutRow(cart, isbn,
                      [distributor |-> distributor_name(isbn),
                       qty |-> MergedQty(CartQtyOf(cart, isbn), 1)])
    /\ UNCHANGED <<books, sales, now, distributors, catalog, catalogSeq, distSeq, new_meta>>

\* Order Cart, "Clear Cart": the page shows the button only for a cart with lines
ClearCartOn ==
    /\ DOMAIN cart # {}
    /\ cart' = <<>>
    /\ UNCHANGED <<books, sales, now, distributors, catalog, catalogSeq, distSeq, new_meta>>

CartUploadRows == {[isbn |-> "i1"], [isbn |-> "i2"]}

CartDistributor ==
    \E name \in DistNames : AddDistributorOn(name, NoFail) /\ UNCHANGED history

CartUpload ==
    \E sel_dist \in dist_names, row \in CartUploadRows :
        ProcessUploadOn(sel_dist, <<row>>, NoFail) /\ UNCHANGED history

CartSaveBook ==
    \E dist \in dist_names :
        SaveBookOn("i1", "T1", "A1", 0, "S1", dist, NoFail) /\ UNCHANGED history

CartScan ==
    AddStockOn("i2", 1, Web("error", "nomatch"), NoFail) /\ UNCHANGED history

CatalogAdd ==
    \E row \in CatalogResults, qty_add \in CartQtys :
        /\ CatalogAddOn(row, qty_add)
        /\ requested' = [requested EXCEPT ![row.isbn] = @ + qty_add]
        /\ UNCHANGED <<received, shortfall, lookup>>

InventoryAdd ==
    \E isbn \in DOMAIN books :
        /\ InventoryAddOn(isbn)
        /\ requested' = [requested EXCEPT ![isbn] = @ + 1]
        /\ UNCHANGED <<received, shortfall, lookup>>

ClearCart ==
    /\ ClearCartOn
    /\ requested' = [i \in Isbns |-> 0]
    /\ UNCHANGED <<received, shortfall, lookup>>

NextCart ==
    \/ CartDistributor
    \/ CartUpload
    \/ CartSaveBook
    \/ CartScan
    \/ CatalogAdd
    \/ InventoryAdd
    \/ ClearCart

SpecCart == Init /\ [][NextCart]_vars

(* C13: the cart holds one line for each ISBN added since it was last       *)
(* cleared and no other, and the line's quantity is the sum of the          *)
(* quantities added for that ISBN since then.                               *)
CartMergesByIsbn ==
    /\ DOMAIN cart = {isbn \in Isbns : requested[isbn] > 0}
    /\ \A isbn \in DOMAIN cart : cart[isbn].qty = requested[isbn]

\* a line that took several adds, one of them from a catalog
CartLineMerged ==
    \E isbn \in DOMAIN cart, d \in distributors :
        /\ cart[isbn].qty = 3
        /\ cart[isbn].distributor = d.name
        /\ isbn \in DOMAIN books

----------------------------------------------------------------------------
(* Order Cart, "Generate Distributor Emails & Excel": the lines of the cart *)
(* grouped by their distributor.                                            *)

\* edited_df.groupby("Distributor"): one group per distributor name; pandas leaves
\* out the rows whose key is None
grouped(c) ==
    [dist_name \in {c[isbn].distributor : isbn \in DOMAIN c} \ {NoText} |->
        {isbn \in DOMAIN c : c[isbn].distributor = dist_name}]

RECURSIVE CartQtySum(_, _)
CartQtySum(c, isbns) ==
    IF isbns = {} THEN 0
    ELSE LET isbn == CHOOSE i \in isbns : TRUE
         IN  c[isbn].qty + CartQtySum(c, isbns \ {isbn})

RECURSIVE GroupQtySum(_, _, _)
GroupQtySum(c, g, names) ==
    IF names = {} THEN 0
    ELSE LET name == CHOOSE n \in names : TRUE
         IN  CartQtySum(c, g[name]) + GroupQtySum(c, g, names \ {name})

(* C14: the groups partition the cart: every line of the cart is in exactly *)
(* one group, there is one group per distinct distributor of the cart, and  *)
(* the quantities of the groups add up to the cart's total.                 *)
GroupsPartitionCart ==
    LET g == grouped(cart)
    IN  /\ \A isbn \in DOMAIN cart : Cardinality({name \in DOMAIN g : isbn \in g[name]}) = 1
        /\ Cardinality(DOMAIN g) = Cardinality({cart[isbn].distributor : isbn \in DOMAIN cart})
        /\ GroupQtySum(cart, g, DOMAIN g) = CartQtySum(cart, DOMAIN cart)

----------------------------------------------------------------------------
(* Returns Due.  The clock counts days: day 1 is 2024-01-01, the day of     *)
(* Init, and a purchase_date is the day number of the day it was written.   *)

Years == 2024..2026

IsLeap(y) == (y % 4 = 0 /\ y % 100 # 0) \/ y % 400 = 0

DaysInMonth(y, m) == CASE m \in {4, 6, 9, 11} -> 30
                       [] m = 2 -> (IF IsLeap(y) THEN 29 ELSE 28)
                       [] OTHER -> 31

RECURSIVE DaysBeforeYear(_)
DaysBeforeYear(y) == IF y <= 2024 THEN 0
                     ELSE DaysBeforeYear(y - 1) + (IF IsLeap(y - 1) THEN 366 ELSE 365)

RECURSIVE DaysBeforeMonth(_, _)
DaysBeforeMonth(y, m) == IF m <= 1 THEN 0
                         ELSE DaysBeforeMonth(y, m - 1) + DaysInMonth(y, m - 1)

\* the day number of year-month-day; a day past the end of the month runs on into the next
DayNumber(y, m, d) == DaysBeforeYear(y) + DaysBeforeMonth(y, m) + d

\* the calendar date of a day number
DateOf(n) ==
    LET y == CHOOSE yy \in Years : DaysBeforeYear(yy) < n /\ n <= DaysBeforeYear(yy + 1)
        k == n - DaysBeforeYear(y)
        m == CHOOSE mm \in 1..12 :
                 DaysBeforeMonth(y, mm) < k /\ k <= DaysBeforeMonth(y, mm) + DaysInMonth(y, mm)
    IN  [y |-> y, m |-> m, d |-> k - DaysBeforeMonth(y, m)]

\* SQLite date(purchase_date, '+N months'): N is added to the month number, the year
\* takes the carry, and the day of the month is kept as it is
date_plus_months(purchase_date, months) ==
    IF purchase_date = NULL THEN NULL
    ELSE LET p == DateOf(purchase_date)
             m0 == (p.m - 1) + months
         IN  DayNumber(p.y + (m0 \div 12), (m0 % 12) + 1, p.d)

\* (mutant) LEFT JOIN in place of JOIN, and no WHERE b.stock > 0
returns_query_all(b, ds) ==
    {[isbn |-> isbn, stock |-> b[isbn].stock, dist |-> NoText, due_date |-> NULL] :
        isbn \in {i \in DOMAIN b : \A d \in ds : d.id # b[i].distributor_id}}
    \cup
    {[isbn |-> bd[1], stock |-> b[bd[1]].stock, dist |-> bd[2].name,
      due_date |-> date_plus_months(b[bd[1]].purchase_date, bd[2].return_window_months)] :
        bd \in {x \in (DOMAIN b) \X ds : b[x[1]].distributor_id = x[2].id}}

\* SELECT b.title, b.stock, d.name as dist, date(b.purchase_date, ...) as due_date
\* FROM books b JOIN distributors d ON b.distributor_id = d.id WHERE b.stock > 0
returns_query(b, ds) ==
    {[isbn |-> bd[1], stock |-> b[bd[1]].stock, dist |-> bd[2].name,
      due_date |-> date_plus_months(b[bd[1]].purchase_date, bd[2].return_window_months)] :
        bd \in {x \in (DOMAIN b) \X ds :
                   b[x[1]].distributor_id = x[2].id /\ b[x[1]].stock > 0}}

\* df['days_left'] = (df['due_date'] - today).dt.days
days_left(due_date, today) == due_date - today

\* the colour of the days_left cell
days_left_colour(x) == IF x < 0 THEN "red" ELSE IF x < 30 THEN "orange" ELSE "white"

\* the days on which the shop is opened after day 1
ReturnDays == {31, 153, 154, 183, 184, 197, 244}

ReturnWindows == {1, 6}

ReturnsDistributor ==
    \E window \in ReturnWindows : SaveDistributorOn("D1", window, NoFail) /\ UNCHANGED history

ReturnsSaveBook ==
    \E isbn \in Isbns, stock \in NewBookStocks, dist \in dist_names :
        SaveBookOn(isbn, "T1", "A1", stock, "S1", dist, NoFail) /\ UNCHANGED history

ReturnsScan ==
    AddStockOn("i2", 1, Web("error", "nomatch"), NoFail) /\ UNCHANGED history

ReturnsDeleteDistributor ==
    \E d \in distributors : DeleteDistributorOn(d.id, NoFail) /\ UNCHANGED history

DayPasses ==
    /\ \E day \in ReturnDays : day > now /\ now' = day
    /\ UNCHANGED <<books, sales, ledgerRest, history>>

NextReturns ==
    \/ ReturnsDistributor
    \/ ReturnsSaveBook
    \/ ReturnsScan
    \/ ReturnsDeleteDistributor
    \/ DayPasses

SpecReturns == Init /\ [][NextReturns]_vars

(* C15: every book the Returns Due page lists has a distributor and a       *)
(* stock above 0; a book with stock 0, or with no distributor, is not       *)
(* listed.                                                                  *)
ReturnsListOnlyStockedWithDistributor ==
    LET listed == {r.isbn : r \in returns_query(books, distributors)}
    IN  /\ \A isbn \in listed :
              /\ books[isbn].stock > 0
              /\ books[isbn].distributor_id # NULL
              /\ \E d \in distributors : d.id = books[isbn].distributor_id
        /\ \A isbn \in DOMAIN books :
              (books[isbn].stock <= 0 \/ books[isbn].distributor_id = NULL) => isbn \notin listed

\* one book is listed while another, in stock but with no distributor, is not
ReturnListedBesideUnlisted ==
    /\ "i1" \in {r.isbn : r \in returns_query(books, distributors)}
    /\ "i2" \in DOMAIN books
    /\ books["i2"].stock > 0
    /\ books["i2"].distributor_id = NULL

(* C16: for every listed book the due date is the purchase date moved on by *)
(* the distributor's return window in calendar months (the same day of the  *)
(* month, or the month's last day when it has no such day), the days left   *)
(* are the due date less today, and the book is shown overdue (red) below   *)
(* 0 days, due soon (orange) from 0 to 29 days, not urgent (white) above.   *)
CalendarMonthsLater(day, months) ==
    LET p == DateOf(day)
        m0 == (p.m - 1) + months
        y == p.y + (m0 \div 12)
        m == (m0 % 12) + 1
    IN  DayNumber(y, m, IF p.d <= DaysInMonth(y, m) THEN p.d ELSE DaysInMonth(y, m))

WindowOf(isbn) ==
    (CHOOSE d \in distributors : d.id = books[isbn].distributor_id).return_window_months

ReturnsDueByCalendarMonths ==
    \A r \in returns_query(books, distributors) :
        LET left == days_left(r.due_date, now)
        IN  /\ r.due_date = CalendarMonthsLater(books[r.isbn].purchase_date, WindowOf(r.isbn))
            /\ left = CalendarMonthsLater(books[r.isbn].purchase_date, WindowOf(r.isbn)) - now
            /\ days_left_colour(left) = (IF left < 0 THEN "red"
                                         ELSE IF left < 30 THEN "orange" ELSE "white")

----------------------------------------------------------------------------
(* Inventory, Add New Book, "Fetch Metadata": one run of the resolver, with *)
(* the requests it sends.                                                   *)

\* what a source can do with one request: raise, run into the timeout, answer with a
\* status other than 200, answer without a match, answer with a match
FetchResponses == SourceResponses \cup {"timeout", "non200"}

FetchIsbns == {"9780000000001", "978-0-00-000000-1", "12345", " 1-2 ", " "}

\* the requests.get calls of one fetch_book_metadata run, in the order they are made:
\* the second attempt is reached only when the first has not returned
requests_sent(isbn, google, openlib) ==
    <<[source |-> "google", isbn |-> clean_isbn(isbn)]>> \o
    (IF google = "match" THEN <<>> ELSE <<[source |-> "openlib", isbn |-> clean_isbn(isbn)]>>)

\* "Fetch Metadata": meta = fetch_book_metadata(isbn_in); a found record is kept in
\* the session, "Not found" leaves the session as it was
FetchMetadataOn(isbn_in, google, openlib) ==
    LET meta == fetch_book_metadata(isbn_in, google, openlib)
    IN  /\ new_meta' = IF meta.found THEN meta ELSE new_meta
        /\ UNCHANGED <<books, sales, now, distributors, catalog, catalogSeq, distSeq, cart>>

FetchMetadata ==
    \E isbn_in \in FetchIsbns, google \in FetchResponses, openlib \in FetchResponses :
        /\ FetchMetadataOn(isbn_in, google, openlib)
        /\ lookup' = [isbn |-> isbn_in, google |-> google, openlib |-> openlib,
                      requests |-> requests_sent(isbn_in, google, openlib),
                      result |-> fetch_book_metadata(isbn_in, google, openlib)]
        /\ UNCHANGED <<received, shortfall, requested>>

\* "Save Book" with the ISBN typed on the tab
ResolverSaveBook ==
    \E dist \in dist_names :
        SaveBookOn("9780000000001", "T1", "A1", 0, "S1", dist, NoFail) /\ UNCHANGED history

NextResolver ==
    \/ FetchMetadata
    \/ FirstDistributor
    \/ ResolverSaveBook

SpecResolver == Init /\ [][NextResolver]_vars

(* C17: a run of the resolver asks Google Books first and Open Library      *)
(* second; a match of the first source is returned and the second source    *)
(* is not asked; a source that raises, times out, answers non-200 or has no *)
(* match is passed over; the second source's match is returned when the     *)
(* first has none; with no match the result is "not found", and the run     *)
(* ends normally in every case.                                             *)
GoogleOutput == [found |-> TRUE, title |-> "G-title", author |-> "G-author", genre |-> "G-genre"]
OpenLibraryOutput == [found |-> TRUE, title |-> "OL-title", author |-> "OL-author", genre |-> "OL-genre"]

ResolverFirstMatchInOrder ==
    lookup # NoLookup =>
        LET asked == [k \in 1..Len(lookup.requests) |-> lookup.requests[k].source]
        IN  /\ lookup.google = "match" =>
                  asked = <<"google">> /\ lookup.result = GoogleOutput
            /\ (lookup.google # "match" /\ lookup.openlib = "match") =>
                  asked = <<"google", "openlib">> /\ lookup.result = OpenLibraryOutput
            /\ (lookup.google # "match" /\ lookup.openlib # "match") =>
                  asked = <<"google", "openlib">> /\ lookup.result = NoMeta

\* the first source raised and the second source's match was returned and kept
FellThroughToOpenLibrary ==
    /\ lookup.google = "error"
    /\ lookup.openlib = "match"
    /\ lookup.result = OpenLibraryOutput
    /\ new_meta = OpenLibraryOutput

(* C18: a resolver run on an ISBN that has fewer than 10 characters once    *)
(* whitespace and hyphens are stripped sends no request and returns         *)
(* "not found".                                                             *)
ShortIsbnSendsNoRequest ==
    (lookup # NoLookup /\ Len(clean_isbn(lookup.isbn)) < 10) =>
        /\ lookup.requests = <<>>
        /\ lookup.result = NoMeta

----------------------------------------------------------------------------
(* C19: a book a bulk import creates takes each of title, author and genre  *)
(* from the row when the row supplies it, else from the resolver when the   *)
(* resolver has a match for the ISBN, else the placeholder; its stock is    *)
(* the row's stock, or 0.                                                   *)
SuppliedElseResolved(row, col, meta, from_meta, placeholder) ==
    IF col \in DOMAIN row /\ row[col] # "" THEN row[col]
    ELSE IF meta.found THEN from_meta ELSE placeholder

BulkImportFillsFields ==
    [][\A row \in BulkImportRows, web \in LedgerWebs :
          (BulkImportOn(<<row>>, web, NoFail) /\ strip(row.isbn) # ""
                                              /\ strip(row.isbn) \notin DOMAIN books) =>
              LET isbn == strip(row.isbn)
                  meta == fetch_book_metadata(isbn, web.google, web.openlib)
              IN  /\ isbn \in DOMAIN books'
                  /\ books'[isbn].title =
                         SuppliedElseResolved(row, "title", meta, meta.title, UnknownTitle(isbn))
                  /\ books'[isbn].author =
                         SuppliedElseResolved(row, "author", meta, meta.author, "Unknown")
                  /\ books'[isbn].genre =
                         SuppliedElseResolved(row, "genre", meta, meta.genre, "Unknown")
                  /\ books'[isbn].stock = Get(row, "stock", 0)]_vars


----------------------------------------------------------------------------
(* The bulk jobs with one statement of one row raising: the writes go       *)
(* through DBManager.execute, the reads through DBManager.query.            *)

ReceivingStatements == {"select_book", "insert_book", "update_stock"}

BatchStatements == SalesStatements \cup {"select_book", "select_stock"}

BatchSales ==
    \E rows \in Files(QtyRows), web \in LedgerWebs, fail \in OneFailure(BatchStatements) :
        ProcessSalesOn(rows, web, fail) /\ UNCHANGED history

BatchReceiving ==
    \E rows \in Files(QtyRows), web \in LedgerWebs, fail \in OneFailure(ReceivingStatements) :
        ProcessReceivingOn(rows, web, fail) /\ UNCHANGED history

BatchBulkImport ==
    \E rows \in Files(BulkImportRows), web \in LedgerWebs, fail \in OneFailure({"insert_book"}) :
        BulkImportOn(rows, web, fail) /\ UNCHANGED history

NextBatch ==
    \/ BatchSales
    \/ BatchReceiving
    \/ BatchBulkImport

SpecBatch == Init /\ [][NextBatch]_vars

(* C20: when a statement of row k of a bulk job fails, the job ends in the  *)
(* state that processing the rows after k, without failure, gives from the  *)
(* state the rows up to k left: the later rows are all processed and the    *)
(* effects of the earlier rows stand.                                       *)
RowsAfter(rows, k) == SubSeq(rows, k + 1, Len(rows))

BatchContinuesPastFailedRow ==
    [][\A web \in LedgerWebs, k \in 1..MaxRows :
          /\ \A rows \in Files(QtyRows), stmt \in BatchStatements :
                (k <= Len(rows) /\ ProcessSalesOn(rows, web, {<<k, stmt>>})) =>
                    LET db == [books |-> books, sales |-> sales]
                        upto == SalesRows(db, SubSeq(rows, 1, k), 1, web, {<<k, stmt>>}, now)
                        after == SalesRows(upto, RowsAfter(rows, k), 1, web, NoFail, now)
                    IN  books' = after.books /\ sales' = after.sales
          /\ \A rows \in Files(QtyRows), stmt \in ReceivingStatements :
                (k <= Len(rows) /\ ProcessReceivingOn(rows, web, {<<k, stmt>>})) =>
                    LET upto == ReceivingRows(books, SubSeq(rows, 1, k), 1, web, {<<k, stmt>>}, now)
                    IN  books' = ReceivingRows(upto, RowsAfter(rows, k), 1, web, NoFail, now)
          /\ \A rows \in Files(BulkImportRows) :
                (k <= Len(rows) /\ BulkImportOn(rows, web, {<<k, "insert_book">>})) =>
                    LET upto == BulkRows(books, SubSeq(rows, 1, k), 1, web,
                                         {<<k, "insert_book">>}, now)
                    IN  books' = BulkRows(upto, RowsAfter(rows, k), 1, web, NoFail, now)]_vars


----------------------------------------------------------------------------
(* The stock-list upload with one of its two statements raising: the DELETE *)
(* goes through DBManager.execute, the INSERTs through executemany; each    *)
(* swallows its exception, and nothing is rolled back.                      *)

UploadFailures == {NoFail, {<<1, "delete_catalog">>}, {<<1, "insert_catalog">>}}

UploadDistributor ==
    \E name \in DistNames : AddDistributorOn(name, NoFail) /\ UNCHANGED history

FaultyUpload ==
    \E sel_dist \in dist_names, rows \in Files(UploadRows), fail \in UploadFailures :
        ProcessUploadOn(sel_dist, rows, fail) /\ UNCHANGED history

NextUpload ==
    \/ UploadDistributor
    \/ FaultyUpload

SpecUpload == Init /\ [][NextUpload]_vars

(* C21: an upload for a distributor that has catalog entries leaves that    *)
(* distributor with at least one entry, whether a statement of the upload   *)
(* fails or the file has no row with an ISBN.                               *)
UploadNeverEmptiesCatalog ==
    [][\A sel_dist \in DistNames, rows \in Files(UploadRows), fail \in UploadFailures :
          (/\ ProcessUploadOn(sel_dist, rows, fail)
           /\ CatalogOf(catalog, dist_map(sel_dist)) # {}) =>
              CatalogOf(catalog', dist_map(sel_dist)) # {}]_vars

====
